---- MODULE Spec2Model ----
(***************************************************************************)
(* Model of donkeycar/parts/smart_leds_status.py: the LittleWire transport *)
(* (class device) and the status LED controller (class SMART_LEDS).        *)
(*                                                                         *)
(* Two threads act on one SMART_LEDS object: the main thread, which runs   *)
(* the constructor and then the caller operations (toggle, blink, run,     *)
(* run_threaded, set_rgb, shutdown), and the update thread, which runs     *)
(* update().  Time is a clock of ticks read by time.time().                *)
(***************************************************************************)
EXTENDS Integers, Sequences, FiniteSets, TLC

\* ------------------------------------------------------------------ bounds
\* Largest strip length (stringlen) the constructor is given.
MaxLen == 2
\* Last tick of the clock.  The clock stops there: MaxTime stands for every
\* later time, so a sleep that would end after MaxTime ends at MaxTime.
MaxTime == 10
\* The blink rate, in ticks, the caller passes to blink and run_threaded.
BlinkRate == 3
\* Ticks after which time.sleep(0.05) of update() may return.  The sleep is
\* far longer than MIN_UPDATE_INTERVAL; the model keeps it longer, but short.
PollTicks == 2
\* Ticks after which time.sleep(1) of device.__init__ may return.
SettleTicks == 1
\* The count of cycles begun after shutdown returned stops here.
MaxStopCycles == 2
\* The count of preloads that pushes cut short left unflushed stops here.
MaxCarry == 1

\* --------------------------------------------------------------- constants
\* MIN_UPDATE_INTERVAL = 0.001 s: one tick of the clock is a millisecond.
MIN_UPDATE_INTERVAL == 1
\* bRequest of every ws2812 control transfer.
WS2812_REQUEST == 54
\* The gray level the constructor fills the buffer with.
GRAY == 128

\* time.time() at the start of the constructor.  blink_changed starts at 0
\* (the epoch), which is further back than any rate.
StartTime == BlinkRate + 1
\* The blink rates the caller passes.
Rates == {BlinkRate}
\* The pins the constructor is given.
Pins == {1}
\* The (r, g, b) percentages the caller passes to set_rgb.
RgbArgs == {<<100, 0, 0>>}
\* The pins the constructor is given when only construction is looked at:
\* with and without the bit 0x10 the flush sets.
CtorPins == {0, 1, 2, 17}

VARIABLES
    now,            \* time.time()
    stringlen,      \* self.stringlen
    pin,            \* self.pin
    last_execution, \* self.last_execution
    blink_changed,  \* self.blink_changed
    on,             \* self.on
    running,        \* self.running
    force_off,      \* self.force_off
    ledstatus,      \* self.ledstatus: sequence of <<r, g, b>>
    mpc,            \* position of the main thread
    lpc,            \* position of the update thread
    upc,            \* position inside update_leds of the thread that runs it
    zero,           \* update_leds: the parameter zero
    idx,            \* update_leds: number of colours the for loop has taken
    wake,           \* the time the running time.sleep ends
    color,          \* set_rgb: the local color
    si,             \* set_rgb: the loop index i
    bcond,          \* blink: the argument (not self.on) evaluated for toggle
    sent,           \* history: the transfers issued by the current or last push
    snap,           \* history: the buffer when the push in progress began
    pushEnd,        \* history: the time of the last transfer of the last push (0: none)
    usbError,       \* history: a ws2812 transfer has raised USBError
    carry,          \* history: preloads accepted since the last flush by
                    \* pushes that ended without one (capped)
    fmode,          \* history: "zero"/"neg" after run_threaded(0)/(<0) returned
    cycleMode,      \* history: fmode when the cycle in progress began
    stopCycles,     \* history: cycles begun after shutdown returned (capped)
    blinkOnly,      \* history: the caller has called nothing but blink so far
    onFlipAt,       \* history, while blinkOnly: when update() last changed on
    forceFlipAt,    \* history, while blinkOnly: when force_off last changed
    arg             \* history: the argument of the last set_rgb call

vars == <<now, stringlen, pin, last_execution, blink_changed, on, running,
          force_off, ledstatus, mpc, lpc, upc, zero, idx, wake, color, si,
          bcond, sent, snap, pushEnd, usbError, carry, fmode, cycleMode,
          stopCycles, blinkOnly, onFlipAt, forceFlipAt, arg>>

\* Groups of variables for UNCHANGED.
obj == <<stringlen, pin>>
flags == <<on, running, force_off>>
stamps == <<last_execution, blink_changed>>
ulLocals == <<upc, zero, idx>>
callerLocals == <<color, si, bcond, arg>>
pushHist == <<sent, snap, pushEnd, usbError, carry>>
modeHist == <<fmode, cycleMode, stopCycles>>
blinkHist == <<blinkOnly, onFlipAt, forceFlipAt>>

\* ------------------------------------------------------------ the transport
RECURSIVE BitOr(_, _)
\* a | b of non-negative integers.
BitOr(a, b) ==
    IF a = 0 THEN b
    ELSE IF b = 0 THEN a
    ELSE (IF a % 2 = 1 \/ b % 2 = 1 THEN 1 ELSE 0) + 2 * BitOr(a \div 2, b \div 2)

\* x << 8.
Shl8(x) == x * 256

\* Mutant of ws2812_preload: red and green change places.
ws2812_preload_Swapped(r, g, b) ==
    [bRequest |-> WS2812_REQUEST,
     wValue   |-> BitOr(Shl8(r), 32),
     wIndex   |-> BitOr(Shl8(b), g)]

\* device.ws2812_preload(r, g, b): the control transfer it issues.
ws2812_preload(r, g, b) ==
    [bRequest |-> WS2812_REQUEST,
     wValue   |-> BitOr(Shl8(g), 32),
     wIndex   |-> BitOr(Shl8(b), r)]

\* Mutant of ws2812_flush: the pin and 0x10 are added, not or-ed.
ws2812_flush_Adds(p) ==
    [bRequest |-> WS2812_REQUEST, wValue |-> p + 16, wIndex |-> 0]

\* device.ws2812_flush(pin): the control transfer it issues.
ws2812_flush(p) ==
    [bRequest |-> WS2812_REQUEST, wValue |-> BitOr(p, 16), wIndex |-> 0]

\* ------------------------------------------------------------------- time
\* The clock has reached t (a time.sleep that ends at t returns).
Reached(t) == now >= t \/ now = MaxTime

\* Time passes.
Tick ==
    /\ now < MaxTime
    /\ now' = now + 1
    /\ UNCHANGED <<obj, stamps, flags, ledstatus, mpc, lpc, ulLocals, wake,
                   callerLocals, pushHist, modeHist, blinkHist>>

\* ----------------------------------------------------------- construction
\* SMART_LEDS.__init__ up to the call of device(): last_execution is set.
\* The fields assigned after device() returns (blink_changed, on, running,
\* force_off, pin, stringlen) have their constructor values from the start:
\* nothing reads them before.
Init ==
    /\ now = StartTime
    /\ stringlen \in 1..MaxLen
    /\ pin \in Pins
    /\ last_execution = StartTime
    /\ blink_changed = 0
    /\ on = FALSE
    /\ running = TRUE
    /\ force_off = FALSE
    /\ ledstatus = <<>>
    /\ mpc = "find"
    /\ lpc = "unstarted"
    /\ upc = "none"
    /\ zero = FALSE
    /\ idx = 0
    /\ wake = 0
    /\ color = <<0, 0, 0>>
    /\ si = 0
    /\ bcond = FALSE
    /\ sent = <<>>
    /\ snap = <<>>
    /\ pushEnd = 0
    /\ usbError = FALSE
    /\ carry = 0
    /\ fmode = "none"
    /\ cycleMode = "none"
    /\ stopCycles = 0
    /\ blinkOnly = TRUE
    /\ onFlipAt = 0
    /\ forceFlipAt = 0
    /\ arg = <<>>

\* Everything but the position of the main thread and the sleep it runs.
ctorFrame == <<now, obj, stamps, flags, ledstatus, lpc, ulLocals,
               callerLocals, pushHist, modeHist, blinkHist>>

\* device.__init__: usb.core.find; no device raises ValueError.
DevFind ==
    /\ mpc = "find"
    /\ \E found \in BOOLEAN : mpc' = IF found THEN "set_configuration" ELSE "failed"
    /\ UNCHANGED <<ctorFrame, wake>>

\* device.__init__: the first set_configuration, inside try.
DevSetConfiguration ==
    /\ mpc = "set_configuration"
    /\ \E ok \in BOOLEAN : mpc' = IF ok THEN "fw" ELSE "reset"
    /\ UNCHANGED <<ctorFrame, wake>>

\* device.__init__: the except branch resets the device and sleeps.
DevReset ==
    /\ mpc = "reset"
    /\ \E ok \in BOOLEAN :
         IF ok THEN mpc' = "settle" /\ wake' = now + SettleTicks
         ELSE mpc' = "failed" /\ wake' = wake
    /\ UNCHANGED ctorFrame

\* Mutant of DevRetry: a failed retry resets the device again.
DevRetry_Again ==
    /\ mpc = "settle"
    /\ Reached(wake)
    /\ \E ok \in BOOLEAN : mpc' = IF ok THEN "fw" ELSE "reset"
    /\ UNCHANGED <<ctorFrame, wake>>

\* device.__init__: time.sleep(1) returns, set_configuration is retried.
DevRetry ==
    /\ mpc = "settle"
    /\ Reached(wake)
    /\ \E ok \in BOOLEAN : mpc' = IF ok THEN "fw" ELSE "failed"
    /\ UNCHANGED <<ctorFrame, wake>>

\* The buffer __init__ builds: stringlen times (128, 128, 128).
InitialBuffer(n) == [i \in 1..n |-> <<GRAY, GRAY, GRAY>>]

\* Mutant of UpdateLedsEnter: remaining is never slept.
UpdateLedsEnter_NoSleep(z) ==
    /\ zero' = z
    /\ idx' = 0
    /\ sent' = <<>>
    /\ snap' = ledstatus'
    /\ upc' = "for"
    /\ wake' = wake

\* update_leds up to its for loop: zero is bound, ledcopy names the buffer
\* itself, remaining is computed and, if positive, slept.
UpdateLedsEnter(z) ==
    /\ zero' = z
    /\ idx' = 0
    /\ sent' = <<>>
    /\ snap' = ledstatus'
    /\ LET remaining == MIN_UPDATE_INTERVAL - (now - last_execution)
       IN IF remaining > 0
          THEN upc' = "sleep" /\ wake' = now + remaining
          ELSE upc' = "for" /\ wake' = wake

\* __init__: readFirmwareVersion (a USBError leaves the constructor: nothing
\* catches it), the buffer is filled, update_leds() is called.
ReadFirmwareVersion ==
    /\ mpc = "fw"
    /\ \E ok \in BOOLEAN :
         IF ok
         THEN /\ mpc' = "ctor_push"
              /\ ledstatus' = InitialBuffer(stringlen)
              /\ UpdateLedsEnter(FALSE)
         ELSE /\ mpc' = "fw_failed"
              /\ UNCHANGED <<ledstatus, ulLocals, wake, sent, snap>>
    /\ UNCHANGED <<now, obj, stamps, flags, lpc, callerLocals, pushEnd,
                   usbError, carry, modeHist, blinkHist>>

\* ------------------------------------------------------------- update_leds
\* A thread is inside update_leds: the constructor or the update loop.
InUpdateLeds == mpc = "ctor_push" \/ lpc = "push"

\* update_leds: time.sleep(remaining) returns.
UpdateLedsSleep ==
    /\ InUpdateLeds
    /\ upc = "sleep"
    /\ Reached(wake)
    /\ upc' = "for"
    /\ UNCHANGED <<now, obj, stamps, flags, ledstatus, mpc, lpc, zero, idx,
                   wake, callerLocals, pushHist, modeHist, blinkHist>>

\* The transfer one iteration of the for loop issues: the colour is read
\* from the buffer now (ledcopy is the buffer, not a copy of it).
PreloadOf(z, buf, i) ==
    IF z THEN ws2812_preload(0, 0, 0)
    ELSE ws2812_preload(buf[i][1], buf[i][2], buf[i][3])

\* Mutant of UpdateLedsReturn: last_execution is left as it was.
UpdateLedsReturn_NoStamp ==
    /\ last_execution' = last_execution
    /\ pushEnd' = now
    /\ upc' = "none"
    /\ zero' = FALSE
    /\ idx' = 0
    /\ snap' = <<>>
    /\ cycleMode' = "none"
    /\ IF mpc = "ctor_push"
       THEN mpc' = "idle" /\ lpc' = lpc /\ wake' = wake
       ELSE mpc' = mpc /\ lpc' = "sleep" /\ wake' = now + PollTicks

\* update_leds after the try statement: last_execution is set and the call
\* returns, to the constructor (which returns too) or to update(), which
\* sleeps.  The locals of the call are gone: they take their initial values.
UpdateLedsReturn ==
    /\ last_execution' = now
    /\ pushEnd' = now
    /\ upc' = "none"
    /\ zero' = FALSE
    /\ idx' = 0
    /\ snap' = <<>>
    /\ cycleMode' = "none"
    /\ IF mpc = "ctor_push"
       THEN mpc' = "idle" /\ lpc' = lpc /\ wake' = wake
       ELSE mpc' = mpc /\ lpc' = "sleep" /\ wake' = now + PollTicks

\* Mutant of UpdateLedsPreload: a USBError is not caught; it leaves
\* update_leds and update(), and the update thread ends.
UpdateLedsPreload_Uncaught ==
    /\ InUpdateLeds
    /\ upc = "for"
    /\ idx < Len(ledstatus)
    /\ on' = ~zero
    /\ sent' = Append(sent, PreloadOf(zero, ledstatus, idx + 1))
    /\ \E ok \in BOOLEAN :
         IF ok
         THEN /\ idx' = idx + 1
              /\ UNCHANGED <<last_execution, pushEnd, upc, mpc, lpc, wake,
                             zero, snap, cycleMode, usbError, carry>>
         ELSE /\ upc' = "none"
              /\ zero' = FALSE
              /\ idx' = 0
              /\ snap' = <<>>
              /\ cycleMode' = "none"
              /\ usbError' = TRUE
              /\ IF mpc = "ctor_push"
                 THEN mpc' = "fw_failed" /\ lpc' = lpc
                 ELSE mpc' = mpc /\ lpc' = "done"
              /\ UNCHANGED <<last_execution, pushEnd, wake, carry>>
    /\ onFlipAt' = IF blinkOnly /\ lpc = "push" /\ on' # on THEN now ELSE onFlipAt
    /\ UNCHANGED <<now, obj, blink_changed, running, force_off, ledstatus,
                   callerLocals, fmode, stopCycles, blinkOnly, forceFlipAt>>

\* Mutant of UpdateLedsPreload: each iteration reads self.force_off
\* instead of the parameter zero.
UpdateLedsPreload_ReadsForceOff ==
    /\ InUpdateLeds
    /\ upc = "for"
    /\ idx < Len(ledstatus)
    /\ on' = ~force_off
    /\ sent' = Append(sent, PreloadOf(force_off, ledstatus, idx + 1))
    /\ \E ok \in BOOLEAN :
         IF ok
         THEN /\ idx' = idx + 1
              /\ UNCHANGED <<last_execution, pushEnd, upc, mpc, lpc, wake,
                             zero, snap, cycleMode, usbError, carry>>
         ELSE /\ UpdateLedsReturn
              /\ usbError' = TRUE
              /\ carry' = IF carry + idx < MaxCarry THEN carry + idx
                           ELSE MaxCarry
    /\ onFlipAt' = IF blinkOnly /\ lpc = "push" /\ on' # on THEN now ELSE onFlipAt
    /\ UNCHANGED <<now, obj, blink_changed, running, force_off, ledstatus,
                   callerLocals, fmode, stopCycles, blinkOnly, forceFlipAt>>

\* update_leds: one iteration of the for loop.  self.on is set, then the
\* preload is issued; a USBError leaves the try statement.
UpdateLedsPreload ==
    /\ InUpdateLeds
    /\ upc = "for"
    /\ idx < Len(ledstatus)
    /\ on' = ~zero
    /\ sent' = Append(sent, PreloadOf(zero, ledstatus, idx + 1))
    /\ \E ok \in BOOLEAN :
         IF ok
         THEN /\ idx' = idx + 1
              /\ UNCHANGED <<last_execution, pushEnd, upc, mpc, lpc, wake,
                             zero, snap, cycleMode, usbError, carry>>
         ELSE /\ UpdateLedsReturn
              /\ usbError' = TRUE
              /\ carry' = IF carry + idx < MaxCarry THEN carry + idx
                           ELSE MaxCarry
    /\ onFlipAt' = IF blinkOnly /\ lpc = "push" /\ on' # on THEN now ELSE onFlipAt
    /\ UNCHANGED <<now, obj, blink_changed, running, force_off, ledstatus,
                   callerLocals, fmode, stopCycles, blinkOnly, forceFlipAt>>

\* update_leds: the for loop is over, the flush is issued; a USBError is
\* swallowed, so both outcomes continue alike.
UpdateLedsFlush ==
    /\ InUpdateLeds
    /\ upc = "for"
    /\ idx >= Len(ledstatus)
    /\ sent' = Append(sent, ws2812_flush(pin))
    /\ UpdateLedsReturn
    /\ \E ok \in BOOLEAN : usbError' = (usbError \/ ~ok)
    /\ carry' = 0
    /\ UNCHANGED <<now, obj, blink_changed, flags, ledstatus, callerLocals,
                   fmode, stopCycles, blinkHist>>

\* ------------------------------------------------------------------ update
\* The update thread is started once the object exists.
StartUpdate ==
    /\ mpc = "idle"
    /\ lpc = "unstarted"
    /\ lpc' = "check"
    /\ UNCHANGED <<now, obj, stamps, flags, ledstatus, mpc, ulLocals, wake,
                   callerLocals, pushHist, modeHist, blinkHist>>

\* Mutant of UpdateCheck: the loop does not look at running.
UpdateCheck_IgnoresRunning ==
    /\ lpc = "check"
    /\ lpc' = "call"
    /\ UNCHANGED <<now, obj, stamps, flags, ledstatus, mpc, ulLocals, wake,
                   callerLocals, pushHist, modeHist, blinkHist>>

\* update: while(self.running).
UpdateCheck ==
    /\ lpc = "check"
    /\ lpc' = IF running THEN "call" ELSE "done"
    /\ UNCHANGED <<now, obj, stamps, flags, ledstatus, mpc, ulLocals, wake,
                   callerLocals, pushHist, modeHist, blinkHist>>

\* update: self.update_leds(self.force_off) is called.
UpdateCall ==
    /\ lpc = "call"
    /\ lpc' = "push"
    /\ UNCHANGED <<now, obj, stamps, flags, ledstatus, mpc, callerLocals,
                   pushEnd, usbError, carry, fmode, blinkHist>>
    /\ UpdateLedsEnter(force_off)
    /\ cycleMode' = fmode
    /\ stopCycles' = IF mpc = "stopped" /\ stopCycles < MaxStopCycles
                     THEN stopCycles + 1 ELSE stopCycles

\* update: time.sleep(0.05) returns.
UpdateSleep ==
    /\ lpc = "sleep"
    /\ Reached(wake)
    /\ lpc' = "check"
    /\ UNCHANGED <<now, obj, stamps, flags, ledstatus, mpc, ulLocals, wake,
                   callerLocals, pushHist, modeHist, blinkHist>>

\* -------------------------------------------------------------- the caller
\* The caller may call: the object exists, its update thread is started, no
\* call is in progress and shutdown has not been called.
CallerIdle == mpc = "idle" /\ lpc # "unstarted"

\* What every caller step leaves alone.
callerFrame == <<now, obj, last_execution, running, lpc, ulLocals, wake,
                 pushHist, cycleMode, stopCycles>>

\* The caller calls something else than blink.
NotBlink ==
    /\ blinkOnly' = FALSE
    /\ onFlipAt' = 0
    /\ forceFlipAt' = 0

\* toggle(condition).
Toggle(condition) ==
    /\ CallerIdle
    /\ force_off' = ~condition
    /\ fmode' = "none"
    /\ NotBlink
    /\ UNCHANGED <<callerFrame, blink_changed, on, ledstatus, mpc, callerLocals>>

\* Mutant of BlinkTest: the test of the if always passes.
BlinkTest_NoRate(rate) ==
    /\ mpc' = "blink"
    /\ bcond' = ~on
    /\ UNCHANGED <<callerFrame, blink_changed, flags, ledstatus, color, si,
                   arg, fmode, blinkHist>>

\* blink(rate): the test of the if and, when it passes, the argument of
\* toggle.
BlinkTest(rate) ==
    /\ IF now - blink_changed > rate
       THEN mpc' = "blink" /\ bcond' = ~on
       ELSE mpc' = mpc /\ bcond' = bcond
    /\ UNCHANGED <<callerFrame, blink_changed, flags, ledstatus, color, si,
                   arg, fmode, blinkHist>>

\* blink(rate), called by the caller.
Blink(rate) ==
    /\ CallerIdle
    /\ BlinkTest(rate)

\* Mutant of BlinkToggle: toggle is given self.on.
BlinkToggle_Inverted ==
    /\ mpc = "blink"
    /\ force_off' = bcond
    /\ blink_changed' = now
    /\ mpc' = "idle"
    /\ bcond' = FALSE
    /\ fmode' = "none"
    /\ forceFlipAt' = IF blinkOnly /\ force_off' # force_off THEN now ELSE forceFlipAt
    /\ UNCHANGED <<callerFrame, on, ledstatus, color, si, arg, blinkOnly, onFlipAt>>

\* blink: self.toggle(not self.on) and blink_changed = time.time().
BlinkToggle ==
    /\ mpc = "blink"
    /\ force_off' = ~bcond
    /\ blink_changed' = now
    /\ mpc' = "idle"
    /\ bcond' = FALSE
    /\ fmode' = "none"
    /\ forceFlipAt' = IF blinkOnly /\ force_off' # force_off THEN now ELSE forceFlipAt
    /\ UNCHANGED <<callerFrame, on, ledstatus, color, si, arg, blinkOnly, onFlipAt>>

\* run().
Run ==
    /\ CallerIdle
    /\ on' = IF ~on THEN TRUE ELSE on
    /\ NotBlink
    /\ UNCHANGED <<callerFrame, blink_changed, force_off, ledstatus, mpc,
                   callerLocals, fmode>>

\* Mutant of RunThreaded: a rate of 0 forces the strip on.
RunThreaded_ZeroOn(blink_rate) ==
    /\ CallerIdle
    /\ IF blink_rate > 0
       THEN BlinkTest(blink_rate)
       ELSE /\ force_off' = FALSE
            /\ fmode' = IF blink_rate = 0 THEN "zero" ELSE "neg"
            /\ NotBlink
            /\ UNCHANGED <<callerFrame, blink_changed, on, ledstatus, mpc,
                           callerLocals>>

\* Mutant of RunThreaded: a negative rate forces the strip off.
RunThreaded_NegativeOff(blink_rate) ==
    /\ CallerIdle
    /\ IF blink_rate > 0
       THEN BlinkTest(blink_rate)
       ELSE /\ force_off' = TRUE
            /\ fmode' = IF blink_rate = 0 THEN "zero" ELSE "neg"
            /\ NotBlink
            /\ UNCHANGED <<callerFrame, blink_changed, on, ledstatus, mpc,
                           callerLocals>>

\* run_threaded(blink_rate).
RunThreaded(blink_rate) ==
    /\ CallerIdle
    /\ IF blink_rate = 0
       THEN /\ force_off' = TRUE
            /\ fmode' = "zero"
            /\ NotBlink
            /\ UNCHANGED <<callerFrame, blink_changed, on, ledstatus, mpc,
                           callerLocals>>
       ELSE IF blink_rate > 0
       THEN BlinkTest(blink_rate)
       ELSE /\ force_off' = FALSE
            /\ fmode' = "neg"
            /\ NotBlink
            /\ UNCHANGED <<callerFrame, blink_changed, on, ledstatus, mpc,
                           callerLocals>>

\* int(x): truncation towards zero of the quotient num / den, den > 0.
IntTrunc(num, den) ==
    IF num >= 0 THEN num \div den ELSE -((-num) \div den)

Max(a, b) == IF a >= b THEN a ELSE b
Min(a, b) == IF a <= b THEN a ELSE b

\* Mutant of Channel: the quotient is rounded, not truncated.
Channel_Rounded(x) ==
    Max(Min(IF x >= 0 THEN (2 * x * 255 + 100) \div 200
                      ELSE -((2 * (-x) * 255 + 100) \div 200), 255), 0)

\* Mutant of Channel: the value is not raised to 0.
Channel_NoFloor(x) == Min(IntTrunc(x * 255, 100), 255)

\* set_rgb: max(min(int(x * 255.0/100.0), 255), 0).  The product x * 255.0
\* is exact and the quotient by 100.0 is rounded to the nearest double, which
\* never crosses an integer: int() of it is the truncated exact quotient.
Channel(x) == Max(Min(IntTrunc(x * 255, 100), 255), 0)

\* set_rgb: the list color after the comprehension.
Convert(rgb) == <<Channel(rgb[1]), Channel(rgb[2]), Channel(rgb[3])>>

\* set_rgb(r, g, b) up to its for loop.
SetRgb(rgb) ==
    /\ CallerIdle
    /\ color' = Convert(rgb)
    /\ arg' = rgb
    /\ si' = 0
    /\ mpc' = "set_rgb"
    /\ NotBlink
    /\ UNCHANGED <<callerFrame, blink_changed, flags, ledstatus, bcond, fmode>>

\* Mutant of SetRgbStore: set_rgb sends each colour it stores to the strip.
SetRgbStore_Writes ==
    /\ mpc = "set_rgb"
    /\ IF si < stringlen
       THEN /\ ledstatus' = [ledstatus EXCEPT ![si + 1] = color]
            /\ si' = si + 1
            /\ mpc' = IF si + 1 < stringlen THEN "set_rgb" ELSE "idle"
            /\ sent' = Append(sent, ws2812_preload(color[1], color[2], color[3]))
       ELSE /\ mpc' = "idle"
            /\ UNCHANGED <<ledstatus, si, sent>>
    /\ UNCHANGED <<now, obj, last_execution, running, lpc, ulLocals, wake,
                   snap, pushEnd, usbError, carry, cycleMode, stopCycles,
                   blink_changed, flags, color, bcond, arg, fmode, blinkHist>>

\* set_rgb: one iteration of the for loop; the call returns after the last.
SetRgbStore ==
    /\ mpc = "set_rgb"
    /\ IF si < stringlen
       THEN /\ ledstatus' = [ledstatus EXCEPT ![si + 1] = color]
            /\ si' = si + 1
            /\ mpc' = IF si + 1 < stringlen THEN "set_rgb" ELSE "idle"
       ELSE /\ mpc' = "idle"
            /\ UNCHANGED <<ledstatus, si>>
    /\ UNCHANGED <<callerFrame, blink_changed, flags, color, bcond, arg, fmode,
                   blinkHist>>

\* shutdown: self.toggle(False).
ShutdownToggle ==
    /\ CallerIdle
    /\ force_off' = TRUE
    /\ fmode' = "none"
    /\ mpc' = "shutdown"
    /\ NotBlink
    /\ UNCHANGED <<now, obj, stamps, on, running, ledstatus, lpc, ulLocals,
                   wake, callerLocals, pushHist, cycleMode, stopCycles>>

\* shutdown: self.running = False; shutdown returns.
ShutdownStop ==
    /\ mpc = "shutdown"
    /\ running' = FALSE
    /\ mpc' = "stopped"
    /\ UNCHANGED <<now, obj, stamps, on, force_off, ledstatus, lpc, ulLocals,
                   wake, callerLocals, pushHist, modeHist, blinkHist>>

\* ------------------------------------------------------- the specification
Construct ==
    \/ DevFind
    \/ DevSetConfiguration
    \/ DevReset
    \/ DevRetry
    \/ ReadFirmwareVersion

UpdateLeds ==
    \/ UpdateLedsSleep
    \/ UpdateLedsPreload
    \/ UpdateLedsFlush

Update ==
    \/ StartUpdate
    \/ UpdateCheck
    \/ UpdateCall
    \/ UpdateSleep

\* The constructor, the update thread and the clock.
System ==
    \/ Tick
    \/ Construct
    \/ UpdateLeds
    \/ Update

\* The whole program: every caller operation.
Next ==
    \/ System
    \/ \E c \in BOOLEAN : Toggle(c)
    \/ Run
    \/ \E r \in Rates : Blink(r)
    \/ \E r \in {-1, 0} \cup Rates : RunThreaded(r)
    \/ BlinkToggle
    \/ \E rgb \in RgbArgs : SetRgb(rgb)
    \/ SetRgbStore
    \/ ShutdownToggle
    \/ ShutdownStop

Spec == Init /\ [][Next]_vars

\* The caller toggles the strip and shuts it down; the update thread keeps
\* taking its steps (every transfer and every sleep returns) and time passes.
NextStop ==
    \/ System
    \/ \E c \in BOOLEAN : Toggle(c)
    \/ ShutdownToggle
    \/ ShutdownStop

FairStop ==
    /\ Init
    /\ [][NextStop]_vars
    /\ WF_vars(Tick)
    /\ WF_vars(UpdateLeds)
    /\ WF_vars(Update)

\* The caller drives the strip with run_threaded and set_rgb.
NextDrive ==
    \/ System
    \/ \E r \in {-1, 0} \cup Rates : RunThreaded(r)
    \/ BlinkToggle
    \/ \E rgb \in RgbArgs : SetRgb(rgb)
    \/ SetRgbStore

SpecDrive == Init /\ [][NextDrive]_vars

\* The caller only calls blink.
NextBlink ==
    \/ System
    \/ \E r \in Rates : Blink(r)
    \/ BlinkToggle

SpecBlink == Init /\ [][NextBlink]_vars

\* The caller calls toggle and set_rgb and never shutdown, so running stays
\* true; the update thread keeps taking its steps and time passes.
NextLoop ==
    \/ System
    \/ \E c \in BOOLEAN : Toggle(c)
    \/ \E rgb \in RgbArgs : SetRgb(rgb)
    \/ SetRgbStore

FairLoop ==
    /\ Init
    /\ [][NextLoop]_vars
    /\ WF_vars(Tick)
    /\ WF_vars(UpdateLeds)
    /\ WF_vars(Update)

\* The percentages and raw values the caller passes to set_rgb as a channel:
\* every percentage, and values below 0, above 100 and above 255.
ChannelArgs == (0..100) \cup {-250, -1, 101, 102, 255, 256, 1000}

\* The (r, g, b) arguments of set_rgb that vary one channel, and two that
\* are out of range in every channel.
WideRgbArgs ==
    {<<x, 0, 0>> : x \in ChannelArgs} \cup {<<0, x, 0>> : x \in ChannelArgs}
        \cup {<<0, 0, x>> : x \in ChannelArgs}
        \cup {<<-250, 1000, 256>>, <<300, -1, 101>>}

\* The object after a construction without failure, its update thread
\* started: the constructor slept MIN_UPDATE_INTERVAL, then pushed gray.
InitRgb ==
    /\ now = StartTime + MIN_UPDATE_INTERVAL
    /\ stringlen \in 1..MaxLen
    /\ pin \in Pins
    /\ last_execution = now
    /\ blink_changed = 0
    /\ on = TRUE
    /\ running = TRUE
    /\ force_off = FALSE
    /\ ledstatus = InitialBuffer(stringlen)
    /\ mpc = "idle"
    /\ lpc = "check"
    /\ upc = "none"
    /\ zero = FALSE
    /\ idx = 0
    /\ wake = now
    /\ color = <<0, 0, 0>>
    /\ si = 0
    /\ bcond = FALSE
    /\ sent = [i \in 1..(stringlen + 1) |->
                 IF i <= stringlen THEN ws2812_preload(GRAY, GRAY, GRAY)
                 ELSE ws2812_flush(pin)]
    /\ snap = <<>>
    /\ pushEnd = now
    /\ usbError = FALSE
    /\ carry = 0
    /\ fmode = "none"
    /\ cycleMode = "none"
    /\ stopCycles = 0
    /\ blinkOnly = TRUE
    /\ onFlipAt = 0
    /\ forceFlipAt = 0
    /\ arg = <<>>

\* The caller only calls set_rgb, with any of the wide arguments.
NextRgb ==
    \/ \E rgb \in WideRgbArgs : SetRgb(rgb)
    \/ SetRgbStore

SpecRgb == InitRgb /\ [][NextRgb]_vars

\* Construction alone, for any of the pins: __init__ from its first
\* statement, as Init.
InitCtor ==
    /\ now = StartTime
    /\ stringlen \in 1..MaxLen
    /\ pin \in CtorPins
    /\ last_execution = StartTime
    /\ blink_changed = 0
    /\ on = FALSE
    /\ running = TRUE
    /\ force_off = FALSE
    /\ ledstatus = <<>>
    /\ mpc = "find"
    /\ lpc = "unstarted"
    /\ upc = "none"
    /\ zero = FALSE
    /\ idx = 0
    /\ wake = 0
    /\ color = <<0, 0, 0>>
    /\ si = 0
    /\ bcond = FALSE
    /\ sent = <<>>
    /\ snap = <<>>
    /\ pushEnd = 0
    /\ usbError = FALSE
    /\ carry = 0
    /\ fmode = "none"
    /\ cycleMode = "none"
    /\ stopCycles = 0
    /\ blinkOnly = TRUE
    /\ onFlipAt = 0
    /\ forceFlipAt = 0
    /\ arg = <<>>

\* The constructor and the clock; the update thread is not started.
NextCtor ==
    \/ Tick
    \/ Construct
    \/ UpdateLeds

SpecCtor == InitCtor /\ [][NextCtor]_vars

\* The constructed object with its update thread running and every caller
\* operation.
NextCallers ==
    \/ Tick
    \/ UpdateLeds
    \/ UpdateCheck
    \/ UpdateCall
    \/ UpdateSleep
    \/ \E c \in BOOLEAN : Toggle(c)
    \/ Run
    \/ \E r \in Rates : Blink(r)
    \/ \E r \in {-1, 0} \cup Rates : RunThreaded(r)
    \/ BlinkToggle
    \/ \E rgb \in RgbArgs : SetRgb(rgb)
    \/ SetRgbStore
    \/ ShutdownToggle
    \/ ShutdownStop

SpecCallers == InitRgb /\ [][NextCallers]_vars

\* ------------------------------------------------------------------ claims
\* The control transfer that preloads black.
ZeroPreload == ws2812_preload(0, 0, 0)

\* A complete push of n black pixels to pin p.
AllOffPush(n, p) ==
    [i \in 1..(n + 1) |-> IF i <= n THEN ZeroPreload ELSE ws2812_flush(p)]

\* C1: once shutdown has returned and the update loop has ended, the last
\* push issued is stringlen preloads of (0,0,0) followed by one flush (no
\* transfer having failed).
C1_LastPushAllOff ==
    (mpc = "stopped" /\ lpc = "done" /\ ~usbError)
        => sent = AllOffPush(stringlen, pin)

\* C2: after shutdown has returned the update loop ends; at most one cycle
\* begins after the return, and an ended loop issues no transfer.
C2_LoopStops ==
    /\ [](stopCycles <= 1)
    /\ [][lpc = "done" => (lpc' = "done" /\ sent' = sent)]_vars
    /\ (mpc = "stopped" ~> lpc = "done")

C2_Witness == mpc = "stopped" /\ lpc = "done" /\ stopCycles = 1

\* C3: when a push is about to issue its first transfer, at least
\* MIN_UPDATE_INTERVAL has passed since the last transfer of the push before.
C3_MinInterval ==
    (InUpdateLeds /\ upc = "for" /\ sent = <<>> /\ pushEnd # 0 /\ now < MaxTime)
        => now - pushEnd >= MIN_UPDATE_INTERVAL

C3_Witness ==
    /\ lpc = "push" /\ upc = "for" /\ sent = <<>>
    /\ wake = pushEnd + MIN_UPDATE_INTERVAL
    /\ now = wake /\ now < MaxTime
    /\ mpc = "set_rgb"

\* C4: a cycle that begins after run_threaded(0) returned, with no toggle or
\* blink after it, preloads (0,0,0) for every position it reaches.
C4_DriveZero ==
    /\ fmode = "zero" => force_off
    /\ cycleMode = "zero" =>
         /\ zero
         /\ Len(sent) = idx
         /\ \A i \in 1..Len(sent) : sent[i] = ZeroPreload

C4_Witness ==
    /\ cycleMode = "zero" /\ idx = stringlen /\ Len(sent) = stringlen
    /\ \A i \in 1..stringlen : ledstatus[i] = <<255, 0, 0>>

\* C5: after run_threaded(rate < 0) returned force_off is false, and a cycle
\* that begins then preloads, for every position, the colour the buffer
\* holds at that position.
C5_DriveNegative ==
    /\ [](fmode = "neg" => ~force_off)
    /\ [](cycleMode = "neg" => (~zero /\ Len(sent) = idx))
    /\ [][(cycleMode = "neg" /\ idx' = idx + 1)
            => sent' = Append(sent, ws2812_preload(ledstatus[idx + 1][1],
                                                   ledstatus[idx + 1][2],
                                                   ledstatus[idx + 1][3]))]_vars

C5_Witness ==
    /\ cycleMode = "neg" /\ idx = stringlen
    /\ \A i \in 1..stringlen :
         ledstatus[i] = <<255, 0, 0>> /\ sent[i] = ws2812_preload(255, 0, 0)

\* C6 as claimed: while the caller only calls blink(rate), two changes of
\* on by the update loop are at least rate apart (no transfer having failed).
C6_OnOncePerRate ==
    [][(blinkOnly' /\ ~usbError' /\ lpc = "push" /\ on' # on /\ onFlipAt # 0
        /\ now < MaxTime)
         => now - onFlipAt >= BlinkRate]_vars

\* C6 as amended: while the caller only calls blink(rate), two changes of
\* force_off are more than rate apart, a blink toggle (which resets the
\* blink timestamp) happens only more than rate after the previous one, and
\* no caller step writes on.
C6_ForceOffOncePerRate ==
    /\ [][(blinkOnly' /\ force_off' # force_off /\ forceFlipAt # 0)
            => now - forceFlipAt > BlinkRate]_vars
    /\ [][(blinkOnly' /\ blink_changed' # blink_changed)
            => (now - blink_changed > BlinkRate /\ blink_changed' = now)]_vars
    /\ [][(blinkOnly' /\ on' # on) => InUpdateLeds]_vars

C6_Witness ==
    blinkOnly /\ forceFlipAt # 0 /\ ~force_off /\ ~on /\ mpc = "idle"

\* C7 as claimed: a blink call made more than rate after the last blink
\* toggle flips on and sets the blink timestamp to now.
C7_BlinkFlipsOn ==
    [][(mpc = "blink" /\ mpc' = "idle")
         => (on' = ~on /\ blink_changed' = now)]_vars

\* C7 as amended: a blink call made more than rate after the last blink
\* toggle reads on, sets force_off to the value read, leaves on as it is and
\* sets the blink timestamp to now.
C7_BlinkSetsForceOff ==
    /\ [][(mpc = "idle" /\ mpc' = "blink")
            => (now - blink_changed > BlinkRate /\ bcond' = ~on)]_vars
    /\ [][(mpc = "blink" /\ mpc' = "idle")
            => (force_off' = ~bcond /\ on' = on /\ blink_changed' = now)]_vars

C7_Witness ==
    /\ mpc = "idle" /\ blinkOnly /\ lpc = "sleep"
    /\ blink_changed = now /\ forceFlipAt # 0 /\ forceFlipAt < blink_changed
    /\ force_off /\ on

\* C8: each preload of a push carries the colour the buffer held at that
\* position when the push began (no transfer having failed).
C8_Snapshot ==
    (upc = "for" /\ ~zero /\ ~usbError)
        => \A i \in 1..Len(sent) : sent[i] = PreloadOf(FALSE, snap, i)

\* round(num / den) for num >= 0 and den > 0, halves rounded up.
RoundDiv(num, den) == (2 * num + den) \div (2 * den)

\* A set_rgb call has returned and its arguments are x, y, z.
SetRgbDone == mpc = "idle" /\ arg # <<>>

\* C9 as claimed: a percentage x in 0..100 is stored as
\* clamp(round(x * 255 / 100), 0, 255).
C9_StoredRounded ==
    SetRgbDone =>
        \A i \in 1..stringlen : \A k \in 1..3 :
            arg[k] \in 0..100 =>
                ledstatus[i][k] = Max(Min(RoundDiv(arg[k] * 255, 100), 255), 0)

\* C9 as amended: a percentage x in 0..100 is stored as the whole part of
\* x * 255 / 100, the largest v in 0..255 with 100 * v <= 255 * x.
C9_StoredTruncated ==
    SetRgbDone =>
        \A i \in 1..stringlen : \A k \in 1..3 :
            arg[k] \in 0..100 =>
                LET v == ledstatus[i][k]
                IN /\ v \in 0..255
                   /\ 100 * v <= 255 * arg[k]
                   /\ 255 * arg[k] < 100 * (v + 1)

C9_Witness ==
    SetRgbDone /\ arg = <<0, 1, 0>> /\ ledstatus[stringlen] = <<0, 2, 0>>

\* C10: once the buffer is built it has stringlen positions and every
\* channel of every position is an integer in 0..255, whatever integers
\* set_rgb is given.
C10_BufferInRange ==
    mpc \in {"idle", "set_rgb", "blink", "shutdown", "stopped"} =>
        /\ Len(ledstatus) = stringlen
        /\ \A i \in 1..stringlen : \A k \in 1..3 : ledstatus[i][k] \in 0..255

C10_Witness ==
    /\ SetRgbDone /\ arg = <<-250, 1000, 256>>
    /\ \A i \in 1..stringlen : ledstatus[i] = <<0, 255, 255>>

\* The push that has returned issued no flush: a preload raised USBError.
CutShort == sent = <<>> \/ sent[Len(sent)] # ws2812_flush(pin)

\* C11: a cycle of the update loop, cut short by a USBError or not, ends in
\* the poll sleep of update() and leaves the caller and running alone; the
\* loop never ends while running is true, and a poll sleep reached after a
\* transfer has raised USBError is followed by another cycle.
C11_LoopSurvivesError ==
    /\ [][(lpc = "push" /\ lpc' # "push")
            => /\ lpc' = "sleep"
               /\ wake' = now + PollTicks
               /\ mpc' = mpc
               /\ running' = running]_vars
    /\ [](lpc # "done")
    /\ ((lpc = "sleep" /\ usbError) ~> (lpc = "push"))

C11_Witness ==
    /\ lpc = "push" /\ upc = "for" /\ idx = stringlen
    /\ carry = 1 /\ running /\ mpc = "set_rgb"

\* A step of a caller operation: it writes a field or a local only the
\* caller operations write.
CallerStep ==
    \/ force_off' # force_off
    \/ blink_changed' # blink_changed
    \/ running' # running
    \/ <<color, si, bcond, arg>>' # <<color, si, bcond, arg>>
    \/ (mpc \in {"idle", "blink", "set_rgb", "shutdown"} /\ mpc' # mpc)

\* C12: on the constructed object no step of a caller operation issues a
\* transfer; a transfer is issued by the update loop inside update_leds, and
\* whoever is inside update_leds is the update loop, so at most one transfer
\* is in flight.
C12_OnlyLoopTransfers ==
    /\ [][CallerStep => sent' = sent]_vars
    /\ [][Len(sent') = Len(sent) + 1 => (lpc = "push" /\ upc = "for")]_vars
    /\ [](upc # "none" => (lpc = "push" /\ mpc # "ctor_push"))

C12_Witness ==
    /\ lpc = "push" /\ upc = "for" /\ Len(sent) = 1 /\ stringlen = 2
    /\ mpc = "set_rgb" /\ si = 1

\* p | 0x10 by arithmetic: 16 is added unless p has that bit.
OrSixteen(p) == IF (p \div 16) % 2 = 1 THEN p ELSE p + 16

\* The push of n gray pixels to pin p, written out transfer by transfer.
GrayPush(n, p) ==
    [i \in 1..(n + 1) |->
        IF i <= n
        THEN [bRequest |-> 54, wValue |-> 128 * 256 + 32,
              wIndex |-> 128 * 256 + 128]
        ELSE [bRequest |-> 54, wValue |-> OrSixteen(p), wIndex |-> 0]]

\* C13: when the constructor has returned, no transfer having failed, the
\* transfers it issued are stringlen preloads of (128,128,128) and one flush
\* with wValue pin | 0x10, the buffer holds (128,128,128) at every position,
\* and update_leds was entered once, from __init__.
C13_ConstructorPush ==
    /\ []((mpc = "idle" /\ ~usbError)
            => /\ sent = GrayPush(stringlen, pin)
               /\ ledstatus = [i \in 1..stringlen |-> <<128, 128, 128>>]
               /\ pushEnd # 0)
    /\ [][(upc = "none" /\ upc' # "none") => (mpc = "fw" /\ pushEnd = 0)]_vars
    /\ [][sent' # sent
            => (mpc' = "ctor_push" \/ mpc = "ctor_push")
               /\ (sent # <<>> => Len(sent') = Len(sent) + 1)]_vars

C13_Witness ==
    /\ mpc = "idle" /\ ~usbError /\ stringlen = 2 /\ pin = 17
    /\ Len(sent) = 3 /\ sent[3].wValue = 17 /\ sent[1].wValue = 32800

\* The preload of the colour c = <<R, G, B>>, R below 256, by arithmetic:
\* wValue = (G << 8) | 0x20 and wIndex = (B << 8) | R.
Encoded(c) ==
    [bRequest |-> 54, wValue |-> c[2] * 256 + 32, wIndex |-> c[3] * 256 + c[1]]

\* The buffer a set_rgb(rgb) that has returned leaves.
BufferOf(rgb) == [i \in 1..stringlen |-> Convert(rgb)]

\* C14: a cycle with zero false that began when the buffer held the colour
\* of the last set_rgb at every position preloads that colour, encoded, for
\* every position it reaches; a preload issued while the last set_rgb has
\* returned carries its colour; no step of set_rgb issues a transfer.
C14_SetRgbVisible ==
    /\ []((lpc = "push" /\ upc = "for" /\ ~zero /\ arg # <<>>
            /\ snap = BufferOf(arg))
            => /\ Len(sent) = idx
               /\ \A i \in 1..Len(sent) : sent[i] = Encoded(Convert(arg)))
    /\ [][(lpc = "push" /\ ~zero /\ idx' = idx + 1 /\ mpc = "idle"
            /\ arg # <<>>)
            => sent' = Append(sent, Encoded(Convert(arg)))]_vars
    /\ [][(<<color, si, arg>>' # <<color, si, arg>>
            \/ (mpc = "set_rgb" /\ mpc' # mpc))
            => sent' = sent]_vars

C14_Witness ==
    /\ lpc = "push" /\ upc = "for" /\ ~zero /\ ~force_off
    /\ arg = <<100, 0, 0>> /\ snap = BufferOf(arg) /\ mpc = "idle"
    /\ stringlen = 2 /\ idx = 2 /\ Len(sent) = 2
    /\ \A i \in 1..2 : sent[i].wValue = 32 /\ sent[i].wIndex = 255

\* C15: once the device is open, the firmware-version read, whether it
\* succeeds or raises, is followed by the filling of the buffer and the
\* initial push.
C15_FirmwareReadNonFatal ==
    [][(mpc = "fw" /\ mpc' # "fw")
         => /\ mpc' = "ctor_push"
            /\ ledstatus' = InitialBuffer(stringlen)
            /\ upc' # "none"]_vars

\* A flush is issued in this step.
FlushStep ==
    /\ Len(sent') = Len(sent) + 1
    /\ sent'[Len(sent')] = ws2812_flush(pin)

\* C16: when a flush is issued, the preloads accepted since the flush
\* before it (or since construction) are the stringlen preloads of the push
\* that flushes, one for each position: no earlier push left any behind.
C16_FlushAfterNPreloads ==
    [][FlushStep
         => /\ carry = 0
            /\ idx = stringlen
            /\ Len(sent) = stringlen]_vars

\* C17: every return of update_leds, after a flush or after a USBError,
\* sets last_execution to the current time; the sleep at the start of a
\* call is at most MIN_UPDATE_INTERVAL; last_execution never decreases and
\* is never ahead of the clock.
C17_StampAlwaysSet ==
    /\ [][(upc # "none" /\ upc' = "none") => last_execution' = now]_vars
    /\ [][(upc # "sleep" /\ upc' = "sleep")
            => (wake' > now /\ wake' - now <= MIN_UPDATE_INTERVAL)]_vars
    /\ [][last_execution' >= last_execution]_vars
    /\ [](last_execution <= now)

C17_Witness ==
    /\ lpc = "sleep" /\ CutShort /\ usbError
    /\ last_execution = now /\ last_execution > StartTime + MIN_UPDATE_INTERVAL

\* The last push ran to its flush and every preload of it was black.
LastPushBlack ==
    /\ Len(sent) = stringlen + 1
    /\ \A i \in 1..stringlen : sent[i] = ZeroPreload

\* C18: when no push is in progress and the last push ran to its flush, no
\* transfer having failed, on is false if that push sent black and true if
\* it sent the buffer (whose colours are never black here).
C18_OnMatchesLastPush ==
    (upc = "none" /\ Len(sent) = stringlen + 1 /\ ~usbError)
        => (on <=> ~LastPushBlack)

\* The number of preloads among the transfers of the current or last push.
Preloads == IF Len(sent) <= stringlen THEN Len(sent) ELSE stringlen

\* C19: the preloads of one push are all black or all a colour of the
\* buffer (gray or the colour set_rgb stored, never black here); during a
\* push they are black exactly if zero is, and zero does not change, whatever
\* force_off becomes meanwhile.
C19_ForceOffSampledOnce ==
    /\ [](\A i, j \in 1..Preloads :
             (sent[i] = ZeroPreload) <=> (sent[j] = ZeroPreload))
    /\ [](\A i \in 1..Preloads :
             sent[i] \in {ZeroPreload, ws2812_preload(GRAY, GRAY, GRAY)}
                           \cup {ws2812_preload(c[1], c[2], c[3]) :
                                    c \in {Convert(rgb) : rgb \in RgbArgs}})
    /\ [](upc # "none" =>
             \A i \in 1..Len(sent) : (sent[i] = ZeroPreload) <=> zero)
    /\ [][(upc # "none" /\ upc' # "none") => zero' = zero]_vars

C19_Witness ==
    /\ lpc = "push" /\ upc = "for" /\ stringlen = 2 /\ idx = 2
    /\ ~zero /\ force_off /\ mpc = "stopped"
    /\ sent[1] # ZeroPreload /\ sent[2] # ZeroPreload

\* C20: device() fails at once when no device is found; otherwise
\* set_configuration is tried; only its failure leads to the reset, the
\* settle sleep and one retry; a failed retry (or reset) fails the opening,
\* after which there is no buffer and no transfer or update cycle, ever.
C20_OpenProtocol ==
    /\ [][(mpc = "find" /\ mpc' # mpc)
            => mpc' \in {"failed", "set_configuration"}]_vars
    /\ [][(mpc = "set_configuration" /\ mpc' # mpc)
            => mpc' \in {"fw", "reset"}]_vars
    /\ [][(mpc # "reset" /\ mpc' = "reset") => mpc = "set_configuration"]_vars
    /\ [][(mpc = "reset" /\ mpc' # mpc)
            => \/ mpc' = "failed"
               \/ mpc' = "settle" /\ wake' = now + SettleTicks]_vars
    /\ [][(mpc = "settle" /\ mpc' # mpc)
            => /\ mpc' \in {"fw", "failed"}
               /\ now >= wake \/ now = MaxTime]_vars
    /\ [][mpc = "failed" => mpc' = "failed"]_vars
    /\ [](mpc \in {"find", "set_configuration", "reset", "settle", "failed"}
            => /\ sent = <<>> /\ ledstatus = <<>>
               /\ lpc = "unstarted" /\ upc = "none")

C20_Witness ==
    /\ mpc = "failed" /\ wake = StartTime + SettleTicks /\ now > wake
    /\ sent = <<>> /\ lpc = "unstarted"

====
